---- MODULE Spec2Model ----
(***************************************************************************)
(* Recipe indexing (src/src/RecipeIndexer.py) and retrieval with feature   *)
(* re-ranking (src/src/Retriever.py).                                      *)
(*                                                                         *)
(* Floats are exact rationals [n, d] with d > 0, or NaN (d = 0); float32 / *)
(* float64 rounding is not modelled.  Texts are strings, built with the    *)
(* same concatenations as the f-strings and joins of the source.           *)
(***************************************************************************)
EXTENDS Integers, Sequences, FiniteSets, TLC

VARIABLES corpus, pc, err, run, ix, disk, rt, ret, call, th

vars == <<corpus, pc, err, run, ix, disk, rt, ret, call, th>>

(***************************************************************************)
(* Bounds of the model.                                                    *)
(***************************************************************************)
MaxRecipes == 2
MaxRuns == 2
MaxChunkSize == 3
MaxTopK == 2
MaxRankRecipes == 3
MaxNames == 4
LongIngredients == 251

(***************************************************************************)
(* Program constants.                                                      *)
(***************************************************************************)
DefaultChunkSize == 5
DefaultBatchSize == 32
PoolSize == 50

(***************************************************************************)
(* Floats: rationals and NaN.                                              *)
(***************************************************************************)
Abs(x) == IF x < 0 THEN -x ELSE x

Min2(a, b) == IF a < b THEN a ELSE b

RECURSIVE Gcd(_, _)
Gcd(a, b) == IF b = 0 THEN a ELSE Gcd(b, a % b)

NaN == [n |-> 0, d |-> 0]

IsNaN(x) == x.d = 0

Frac(n, d) ==
    LET g == Gcd(Abs(n), Abs(d))
        s == IF d < 0 THEN -1 ELSE 1
    IN  [n |-> (s * n) \div g, d |-> (s * d) \div g]

Num(k) == [n |-> k, d |-> 1]

FAdd(x, y) ==
    IF IsNaN(x) \/ IsNaN(y) THEN NaN
    ELSE Frac(x.n * y.d + y.n * x.d, x.d * y.d)

FSub(x, y) ==
    IF IsNaN(x) \/ IsNaN(y) THEN NaN
    ELSE Frac(x.n * y.d - y.n * x.d, x.d * y.d)

FMul(x, y) ==
    IF IsNaN(x) \/ IsNaN(y) THEN NaN
    ELSE Frac(x.n * y.n, x.d * y.d)

\* IEEE division as numpy does it on a float column: 0/0 is NaN, no exception.
\* x/0 with x # 0 (an infinity) cannot arise here: every divisor is the maximum
\* of a column of non-negative values that contains the dividend.
FDiv(x, y) ==
    CASE IsNaN(x) \/ IsNaN(y) -> NaN
      [] y.n = 0 /\ x.n = 0 -> NaN
      [] y.n # 0 -> Frac(x.n * y.d, x.d * y.n)

FLess(x, y) == ~IsNaN(x) /\ ~IsNaN(y) /\ x.n * y.d < y.n * x.d

FEq(x, y) == ~IsNaN(x) /\ ~IsNaN(y) /\ x.n * y.d = y.n * x.d

(***************************************************************************)
(* Sequence helpers.                                                       *)
(***************************************************************************)
Range(s) == {s[i] : i \in DOMAIN s}

RECURSIVE Flatten(_)
Flatten(ss) == IF ss = <<>> THEN <<>> ELSE Head(ss) \o Flatten(Tail(ss))

\* ", ".join(names)
RECURSIVE Join(_)
Join(names) ==
    IF names = <<>> THEN ""
    ELSE IF Len(names) = 1 THEN names[1]
    ELSE LET h == Len(names) \div 2
         IN  Join(SubSeq(names, 1, h)) \o ", " \o Join(SubSeq(names, h + 1, Len(names)))

\* xs[i : i + size] with a 0-based i, as Python slices (clipped at the end)
Slice(xs, i, size) == SubSeq(xs, i + 1, Min2(i + size, Len(xs)))

(***************************************************************************)
(* The embedding model (sentence-transformers) and FAISS, as the source    *)
(* uses them.  The model is an opaque deterministic map from a text to a   *)
(* raw vector; here the raw vector is picked by the length of the text.    *)
(* Every raw vector has an integer norm, so L2 normalisation is exact.     *)
(***************************************************************************)
RawVecs == << <<3, 4>>, <<4, 3>>, <<5, 0>>, <<0, 5>>, <<0, 0>>, <<6, 8>> >>

Encode(text) == RawVecs[(Len(text) % Len(RawVecs)) + 1]

RECURSIVE SumSq(_)
SumSq(v) == IF v = <<>> THEN 0 ELSE Head(v) * Head(v) + SumSq(Tail(v))

ISqrt(s) == CHOOSE r \in 0..s : r * r = s

\* as NormalizeL2, dividing by the squared norm
NormalizeBySquare(v) ==
    LET nr == SumSq(v)
    IN  [i \in DOMAIN v |-> IF nr > 0 THEN Frac(v[i], nr) ELSE Num(v[i])]

\* faiss.normalize_L2 on one row: a zero row is left as it is
NormalizeL2(v) ==
    LET nr == ISqrt(SumSq(v))
    IN  [i \in DOMAIN v |-> IF nr > 0 THEN Frac(v[i], nr) ELSE Num(v[i])]

RECURSIVE Dot(_, _)
Dot(a, b) ==
    IF a = <<>> THEN Num(0)
    ELSE FAdd(FMul(Head(a), Head(b)), Dot(Tail(a), Tail(b)))

(***************************************************************************)
(* RecipeIndexer: pure steps.                                              *)
(***************************************************************************)
\* sorted(xs) for a sequence of non-NaN floats (insertion sort)
RECURSIVE InsertAsc(_, _)
InsertAsc(x, s) ==
    IF s = <<>> THEN <<x>>
    ELSE IF FLess(Head(s), x) THEN <<Head(s)>> \o InsertAsc(x, Tail(s))
    ELSE <<x>> \o s

RECURSIVE SortAsc(_)
SortAsc(s) == IF s = <<>> THEN <<>> ELSE InsertAsc(Head(s), SortAsc(Tail(s)))

\* Series.median(): NaN are skipped; NaN when nothing is left
Median(col) ==
    LET present == SelectSeq(col, LAMBDA x : ~IsNaN(x))
        srt == SortAsc(present)
        m == Len(srt)
    IN  IF m = 0 THEN NaN
        ELSE IF m % 2 = 1 THEN srt[(m + 1) \div 2]
        ELSE FDiv(FAdd(srt[m \div 2], srt[m \div 2 + 1]), Num(2))

\* load_data: the DataFrame of the input file, missing ratings filled with the median
load_data(data) ==
    LET median_rating == Median([i \in DOMAIN data |-> data[i].rating])
    IN  [i \in DOMAIN data |->
            [data[i] EXCEPT !.rating = IF IsNaN(@) THEN median_rating ELSE @]]

\* create_metadata: one row per recipe, ingredient_name renamed to name
create_metadata(df) ==
    [i \in DOMAIN df |->
        [title |-> df[i].title,
         rating |-> df[i].rating,
         is_vege |-> df[i].is_vege,
         total_ecv |-> df[i].total_ecv,
         avg_kcal |-> df[i].avg_kcal,
         avg_fat |-> df[i].avg_fat,
         avg_ecv |-> df[i].avg_ecv,
         ingredients |->
            [j \in DOMAIN df[i].ingredients |->
                [name |-> df[i].ingredients[j].ingredient_name,
                 quantity |-> df[i].ingredients[j].quantity,
                 unit |-> df[i].ingredients[j].unit]]]]

\* as IngredientChunks, without the test that drops an empty group text
RECURSIVE IngredientChunksUnfiltered(_, _, _)
IngredientChunksUnfiltered(ingredients, i, chunk_size) ==
    IF i >= Len(ingredients) THEN <<>>
    ELSE <<"Ingredients: " \o Join(Slice(ingredients, i, chunk_size))>>
         \o IngredientChunksUnfiltered(ingredients, i + chunk_size, chunk_size)

\* the chunks of the ingredient names from 0-based position i on
RECURSIVE IngredientChunks(_, _, _)
IngredientChunks(ingredients, i, chunk_size) ==
    IF i >= Len(ingredients) THEN <<>>
    ELSE LET sub == Join(Slice(ingredients, i, chunk_size))
         IN  (IF sub # "" THEN <<"Ingredients: " \o sub>> ELSE <<>>)
             \o IngredientChunks(ingredients, i + chunk_size, chunk_size)

create_recipe_chunks(meta_row, chunk_size) ==
    LET title == meta_row.title
        ingredients == [j \in DOMAIN meta_row.ingredients |-> meta_row.ingredients[j].name]
    IN  (IF title # "" THEN <<"Title: " \o title>> ELSE <<>>)
        \o IngredientChunks(ingredients, 0, chunk_size)

\* as RecipeChunkRecords, with the id of a chunk taken from its position in the
\* recipe instead of the length of the list (ids restart at every recipe)
RecipeChunkRecordsLocalId(recipe_id, row, count) ==
    LET chunks == create_recipe_chunks(row, DefaultChunkSize)
    IN  [i \in DOMAIN chunks |->
            [global_chunk_id |-> i - 1,
             recipe_id |-> recipe_id,
             chunk_id |-> i - 1,
             text |-> chunks[i]]]

\* the chunk records process() appends for one recipe, given how many exist already
RecipeChunkRecords(recipe_id, row, count) ==
    LET chunks == create_recipe_chunks(row, DefaultChunkSize)
    IN  [i \in DOMAIN chunks |->
            [global_chunk_id |-> count + i - 1,
             recipe_id |-> recipe_id,
             chunk_id |-> i - 1,
             text |-> chunks[i]]]

\* the loop of process() over metadata.iterrows(), from 0-based row recipe_id on
RECURSIVE ChunkLoop(_, _, _)
ChunkLoop(metadata, recipe_id, chunk_metadata) ==
    IF recipe_id >= Len(metadata) THEN chunk_metadata
    ELSE ChunkLoop(metadata, recipe_id + 1,
            chunk_metadata
            \o RecipeChunkRecords(recipe_id, metadata[recipe_id + 1], Len(chunk_metadata)))

\* one pass of the loop of embed_text_batch: the batch starting at 0-based i
EncodeBatch(texts, i, batch_size) ==
    LET batch == Slice(texts, i, batch_size)
    IN  [j \in DOMAIN batch |-> Encode(batch[j])]

\* the batches of embed_text_batch from 0-based position i on
RECURSIVE EmbedLoop(_, _, _)
EmbedLoop(texts, i, batch_size) ==
    IF i >= Len(texts) THEN <<>>
    ELSE <<EncodeBatch(texts, i, batch_size)>> \o EmbedLoop(texts, i + batch_size, batch_size)

\* np.vstack(embeddings), faiss.normalize_L2
StackAndNormalize(embeddings) ==
    LET stacked == Flatten(embeddings)
    IN  [i \in DOMAIN stacked |-> NormalizeL2(stacked[i])]

\* build_faiss_index: IndexFlatIP(dim) holding the rows
build_faiss_index(vectors) == [d |-> Len(vectors[1]), rows |-> vectors]

(***************************************************************************)
(* The processed directory: four files.  run is the number of the indexing *)
(* run that wrote the file (0: never written); it is bookkeeping of the    *)
(* model, the files themselves carry no version.                           *)
(***************************************************************************)
Files == {"recipes_metadata.csv", "chunk_metadata.pkl", "text_vectors.pkl", "recipes_faiss.index"}

NoFile == [exists |-> FALSE, run |-> 0, data |-> <<>>]

WriteFile(d, name, r, data) == [d EXCEPT ![name] = [exists |-> TRUE, run |-> r, data |-> data]]

\* str(x) of an ingredient dict and of the list of them, as to_csv writes the cell
IngredientRepr(ing) ==
    "{'name': '" \o ing.name \o "', 'quantity': '" \o ing.quantity
        \o "', 'unit': '" \o ing.unit \o "'}"

IngredientsRepr(ings) == "[" \o Join([j \in DOMAIN ings |-> IngredientRepr(ings[j])]) \o "]"

\* a float cell of the csv: an empty field for NaN / None
FloatCell(x) == [empty |-> IsNaN(x), num |-> x]

\* metadata.to_csv(..., index=False): one line per row, the index is not written
to_csv(metadata) ==
    [i \in DOMAIN metadata |->
        [title |-> metadata[i].title,
         rating |-> FloatCell(metadata[i].rating),
         is_vege |-> IF metadata[i].is_vege THEN "True" ELSE "False",
         total_ecv |-> FloatCell(metadata[i].total_ecv),
         avg_kcal |-> FloatCell(metadata[i].avg_kcal),
         avg_fat |-> FloatCell(metadata[i].avg_fat),
         avg_ecv |-> FloatCell(metadata[i].avg_ecv),
         ingredients |-> IngredientsRepr(metadata[i].ingredients)]]

(***************************************************************************)
(* RecipeIndexer.process(), one action per step.  pc names the step to run *)
(* next; err is the exception that ended the run.                          *)
(***************************************************************************)
BlankIndexer ==
    [df |-> <<>>, metadata |-> <<>>, chunk_metadata |-> <<>>, embeddings |-> <<>>,
     text_vectors |-> <<>>, index |-> [d |-> 0, rows |-> <<>>]]

\* chunk_texts: appended side by side with chunk_metadata (lines 137 and 143)
chunk_texts == [i \in DOMAIN ix.chunk_metadata |-> ix.chunk_metadata[i].text]

\* how many texts the loop of embed_text_batch has encoded so far
Embedded == Len(Flatten(ix.embeddings))

Step(from, to) == pc = from /\ pc' = to

Keep == UNCHANGED <<corpus, err, run, rt, ret, call, th>>

LoadData ==
    /\ Step("load", "meta")
    /\ ix' = [ix EXCEPT !.df = load_data(corpus)]
    /\ UNCHANGED disk /\ Keep

\* as CreateMetadata, with the metadata table written as soon as it exists
CreateMetadataAndSave ==
    /\ Step("meta", "chunk")
    /\ ix' = [ix EXCEPT !.metadata = create_metadata(ix.df)]
    /\ disk' = WriteFile(disk, "recipes_metadata.csv", run, to_csv(create_metadata(ix.df)))
    /\ Keep

CreateMetadata ==
    /\ Step("meta", "chunk")
    /\ ix' = [ix EXCEPT !.metadata = create_metadata(ix.df)]
    /\ UNCHANGED disk /\ Keep

CreateChunks ==
    /\ Step("chunk", "embed")
    /\ ix' = [ix EXCEPT !.chunk_metadata = ChunkLoop(ix.metadata, 0, <<>>)]
    /\ UNCHANGED disk /\ Keep

EmbedBatch ==
    /\ pc = "embed"
    /\ Embedded < Len(chunk_texts)
    /\ ix' = [ix EXCEPT !.embeddings =
                Append(@, EncodeBatch(chunk_texts, Embedded, DefaultBatchSize))]
    /\ UNCHANGED <<pc, disk>> /\ Keep

\* the encode call of a batch raises: the run ends
EmbedFail ==
    /\ pc = "embed"
    /\ Embedded < Len(chunk_texts)
    /\ pc' = "failed"
    /\ err' = "EmbedError"
    /\ UNCHANGED <<corpus, run, ix, disk, rt, ret, call, th>>

\* np.vstack of an empty list raises ValueError
Stack ==
    /\ pc = "embed"
    /\ Embedded = Len(chunk_texts)
    /\ IF ix.embeddings = <<>>
       THEN /\ pc' = "failed"
            /\ err' = "ValueError"
            /\ UNCHANGED ix
       ELSE /\ pc' = "build"
            /\ ix' = [ix EXCEPT !.text_vectors = StackAndNormalize(ix.embeddings)]
            /\ UNCHANGED err
    /\ UNCHANGED <<corpus, run, disk, rt, ret, call, th>>

BuildIndex ==
    /\ Step("build", "save_metadata")
    /\ ix' = [ix EXCEPT !.index = build_faiss_index(ix.text_vectors)]
    /\ UNCHANGED disk /\ Keep

\* save_outputs, one write per step
SaveMetadata ==
    /\ Step("save_metadata", "save_chunk_metadata")
    /\ disk' = WriteFile(disk, "recipes_metadata.csv", run, to_csv(ix.metadata))
    /\ UNCHANGED ix /\ Keep

SaveChunkMetadata ==
    /\ Step("save_chunk_metadata", "save_text_vectors")
    /\ disk' = WriteFile(disk, "chunk_metadata.pkl", run, ix.chunk_metadata)
    /\ UNCHANGED ix /\ Keep

SaveTextVectors ==
    /\ Step("save_text_vectors", "save_index")
    /\ disk' = WriteFile(disk, "text_vectors.pkl", run, ix.text_vectors)
    /\ UNCHANGED ix /\ Keep

SaveIndex ==
    /\ Step("save_index", "done")
    /\ disk' = WriteFile(disk, "recipes_faiss.index", run, ix.index)
    /\ UNCHANGED ix /\ Keep

Saving == {"save_metadata", "save_chunk_metadata", "save_text_vectors", "save_index"}

\* a write of save_outputs raises (disk full, permission): the file it was about
\* to write is left as it was, the writes before it stay
SaveFail ==
    /\ pc \in Saving
    /\ pc' = "failed"
    /\ err' = "IOError"
    /\ UNCHANGED <<corpus, run, ix, disk, rt, ret, call, th>>

(***************************************************************************)
(* RecipeRetriever: construction (three loads) and the pure steps of       *)
(* retrieve_recipes.                                                       *)
(***************************************************************************)
\* the texts pandas.read_csv takes for a missing value
NaStrings == {"", "N/A", "NA", "NULL", "NaN", "nan", "null", "None", "n/a", "<NA>", "#N/A"}

FloatFromCell(c) == IF c.empty THEN NaN ELSE c.num

\* pd.read_csv: a default RangeIndex; the ingredients cell stays the text that
\* to_csv wrote; a missing title is NaN, which renders as "nan"
read_csv(lines) ==
    [i \in DOMAIN lines |->
        [title |-> IF lines[i].title \in NaStrings THEN "nan" ELSE lines[i].title,
         rating |-> FloatFromCell(lines[i].rating),
         is_vege |-> lines[i].is_vege = "True",
         total_ecv |-> FloatFromCell(lines[i].total_ecv),
         avg_kcal |-> FloatFromCell(lines[i].avg_kcal),
         avg_fat |-> FloatFromCell(lines[i].avg_fat),
         avg_ecv |-> FloatFromCell(lines[i].avg_ecv),
         ingredients |-> lines[i].ingredients]]

NoRetriever ==
    [rpc |-> "none",
     faiss_index |-> [run |-> 0, data |-> [d |-> 0, rows |-> <<>>]],
     recipe_metadata |-> [run |-> 0, data |-> <<>>],
     chunk_metadata |-> [run |-> 0, data |-> <<>>]]

\* encode_query: the query is encoded and normalised in place
encode_query(query) == NormalizeL2(Encode(query))

\* as PadScore, for a metric whose unfilled slots carry the largest value (as
\* the L2 index does)
PadScoreHighest == Frac(2, 1)

\* the score FAISS reports for a slot it could not fill (-FLT_MAX for an inner
\* product index): below every inner product of two unit vectors
PadScore == Frac(-2, 1)

\* the inner product of every row of the index with the query
Scores(index, q_emb) == [i \in DOMAIN index.rows |-> Dot(index.rows[i], q_emb)]

\* as Before, with the later rows of equal score first
BeforeLaterFirst(score) ==
    [i \in DOMAIN score |->
        Cardinality({j \in DOMAIN score :
            \/ FLess(score[i], score[j])
            \/ (j > i /\ ~FLess(score[j], score[i]))})]

\* how many rows come before row i in the result: the rows of greater score and
\* the earlier rows of equal score
Before(score) ==
    [i \in DOMAIN score |->
        Cardinality({j \in DOMAIN score :
            \/ FLess(score[i], score[j])
            \/ (j < i /\ ~FLess(score[j], score[i]))})]

\* the top_k slots of the result: positions are 0-based, an unfilled slot is -1
TopHits(score, before, top_k) ==
    [j \in 1..top_k |->
        IF j <= Len(score)
        THEN LET i == CHOOSE k \in DOMAIN score : before[k] = j - 1
             IN  [score |-> score[i], idx |-> i - 1]
        ELSE [score |-> PadScore, idx |-> -1]]

\* search_similar_chunks: IndexFlatIP.search, exact inner products, the best
\* top_k positions in descending score, equal scores by ascending position.
\* (x \in {e} binds x to the value of e, computed once.)
search_similar_chunks(index, q_emb, top_k) ==
    CHOOSE hits \in UNION {{TopHits(score, before, top_k) : before \in {Before(score)}} :
                                score \in {Scores(index, q_emb)}} : TRUE

\* Python list indexing: a negative index counts from the end
InRange(list, i) == -Len(list) <= i /\ i < Len(list)

PyIndex(list, i) == IF i >= 0 THEN list[i + 1] ELSE list[Len(list) + i + 1]

\* lines 118-129: one row per hit
PoolRows(chunk_metadata, hits) ==
    [j \in DOMAIN hits |->
        LET meta == PyIndex(chunk_metadata, hits[j].idx)
        IN  [recipe_id |-> meta.recipe_id,
             chunk_id |-> meta.chunk_id,
             faiss_score |-> hits[j].score]]

RemoveAt(s, i) == SubSeq(s, 1, i - 1) \o SubSeq(s, i + 1, Len(s))

\* the rows in descending col, rows with equal keys in their order in s
RECURSIVE InsertDesc(_, _, _)
InsertDesc(r, s, col) ==
    IF s = <<>> THEN <<r>>
    ELSE IF FLess(r[col], Head(s)[col]) THEN <<Head(s)>> \o InsertDesc(r, Tail(s), col)
    ELSE <<r>> \o s

RECURSIVE StableDesc(_, _)
StableDesc(s, col) ==
    IF s = <<>> THEN <<>> ELSE InsertDesc(Head(s), StableDesc(Tail(s), col), col)

\* the distinct orders of the rows of s
RECURSIVE Orders(_)
Orders(s) ==
    IF \A i \in DOMAIN s : s[i] = s[1] THEN {s}
    ELSE UNION {
            {<<s[i]>> \o t : t \in Orders(RemoveAt(s, i))} :
            i \in {k \in DOMAIN s : \A j \in 1..(k - 1) : s[j] # s[k]} }

\* length of the leading run of rows of s (sorted) whose key equals the first key
RECURSIVE RunLength(_, _)
RunLength(s, col) ==
    IF Len(s) <= 1 THEN Len(s)
    ELSE IF FLess(s[2][col], s[1][col]) THEN 1
    ELSE 1 + RunLength(Tail(s), col)

\* every order of s (sorted) that permutes rows of equal key only
RECURSIVE TieOrders(_, _)
TieOrders(s, col) ==
    IF s = <<>> THEN {<<>>}
    ELSE LET k == RunLength(s, col)
         IN  {p \o t : p \in Orders(SubSeq(s, 1, k)),
                       t \in TieOrders(SubSeq(s, k + 1, Len(s)), col)}

\* DataFrame.sort_values(col, ascending=False) with the default quicksort, which
\* is not stable: every descending order of the rows is a possible outcome, rows
\* with equal keys in any order.  Rows with a NaN key go last, in their order.
sort_values(df, col) ==
    LET nans == SelectSeq(df, LAMBDA r : IsNaN(r[col]))
        rest == SelectSeq(df, LAMBDA r : ~IsNaN(r[col]))
    IN  {o \o nans : o \in TieOrders(StableDesc(rest, col), col)}

\* a set of integers as an ascending sequence
RECURSIVE Ascending(_)
Ascending(S) ==
    IF S = {} THEN <<>>
    ELSE LET m == CHOOSE x \in S : \A y \in S : x <= y
         IN  <<m>> \o Ascending(S \ {m})

\* as FirstRows, for a sort in ascending faiss_score: the lowest rows of the recipe
FirstRowsLowest(df, recipe_id) ==
    LET own == {r \in Range(df) : r.recipe_id = recipe_id}
    IN  {r \in own : \A o \in own : ~FLess(o.faiss_score, r.faiss_score)}

\* the rows of df that can come first among those of one recipe when df is put
\* in descending faiss_score by a sort that is not stable: the rows of the
\* recipe that no row of the recipe beats (any of them when several are equal)
FirstRows(df, recipe_id) ==
    LET own == {r \in Range(df) : r.recipe_id = recipe_id}
    IN  {r \in own : \A o \in own : ~FLess(r.faiss_score, o.faiss_score)}

RECURSIVE OnePerGroup(_, _)
OnePerGroup(df, ids) ==
    IF ids = <<>> THEN {<<>>}
    ELSE {<<r>> \o t : r \in FirstRows(df, Head(ids)), t \in OnePerGroup(df, Tail(ids))}

\* as sort_groupby_first, without the groupby: every row of the pool is kept,
\* in the descending score the search returned them in
KeepAllRows(df) == {df}

\* lines 131-132: df.sort_values("faiss_score", ascending=False), then
\* df.groupby("recipe_id").first().reset_index(): one row per recipe, in
\* ascending recipe_id, the first row of the recipe in the sorted frame.  The
\* set of the frames the unstable sort can lead to.
sort_groupby_first(df) ==
    OnePerGroup(df, Ascending({df[i].recipe_id : i \in DOMAIN df}))

\* Series.max(): NaN are skipped; NaN when the column has nothing else
ColMax(col) ==
    LET present == {i \in DOMAIN col : ~IsNaN(col[i])}
    IN  IF present = {} THEN NaN
        ELSE col[CHOOSE i \in present : \A j \in present : ~FLess(col[i], col[j])]

\* as RangeIndex, for a table whose rows were put in reverse order without a
\* reset of the index
RangeIndexReversed(frame) == [i \in DOMAIN frame |-> Len(frame) - i]

\* the row labels of a table built by pd.DataFrame(list) or pd.read_csv: the
\* default RangeIndex 0..n-1
RangeIndex(frame) == [i \in DOMAIN frame |-> i - 1]

\* frame.loc[label]: the row carrying the label
loc(frame, label) == frame[CHOOSE i \in DOMAIN frame : RangeIndex(frame)[i] = label]

\* frame.iloc[position]: the row at the 0-based position
iloc(frame, position) == PyIndex(frame, position)

\* lines 134-138: the features of each candidate, looked up by label
JoinFeatures(df, recipe_metadata) ==
    [i \in DOMAIN df |->
        LET row == loc(recipe_metadata, df[i].recipe_id)
        IN  [recipe_id |-> df[i].recipe_id,
             chunk_id |-> df[i].chunk_id,
             faiss_score |-> df[i].faiss_score,
             rating |-> row.rating,
             is_vegetarian |-> row.is_vege,
             avg_kcal |-> row.avg_kcal,
             avg_fat |-> row.avg_fat,
             avg_ecv |-> row.avg_ecv]]

Column(df, col) == [i \in DOMAIN df |-> df[i][col]]

\* as NormMax, with the maximum taken over the whole metadata table
NormMaxCorpus(df, col) == ColMax(Column(rt.recipe_metadata.data, col))

\* the maximum a feature is divided by (lines 140-143)
NormMax(df, col) == ColMax(Column(df, col))

\* as ScoreRow, with the rating treated like the features where lower is better
ScoreRowRatingInverted(df, r, w) ==
    LET rating_norm == FSub(Num(1), FDiv(r.rating, NormMax(df, "rating")))
        kcal_norm == FSub(Num(1), FDiv(r.avg_kcal, NormMax(df, "avg_kcal")))
        fat_norm == FSub(Num(1), FDiv(r.avg_fat, NormMax(df, "avg_fat")))
        eco_norm == FSub(Num(1), FDiv(r.avg_ecv, NormMax(df, "avg_ecv")))
        eco_healthy_score ==
            FAdd(FAdd(FMul(Frac(4, 10), eco_norm), FMul(Frac(3, 10), kcal_norm)),
                 FMul(Frac(3, 10), fat_norm))
        s0 == r.faiss_score
        s1 == FAdd(s0, FMul(w.rating_weight, rating_norm))
        s2 == FAdd(s1, FMul(w.veg_boost_weight, Num(IF r.is_vegetarian THEN 1 ELSE 0)))
        s3 == FAdd(s2, FMul(w.eco_healthy_weight, eco_healthy_score))
    IN  [recipe_id |-> r.recipe_id,
         faiss_score |-> r.faiss_score,
         rating |-> r.rating,
         is_vegetarian |-> r.is_vegetarian,
         avg_kcal |-> r.avg_kcal,
         avg_fat |-> r.avg_fat,
         avg_ecv |-> r.avg_ecv,
         rating_norm |-> rating_norm,
         kcal_norm |-> kcal_norm,
         fat_norm |-> fat_norm,
         eco_norm |-> eco_norm,
         final_score |-> s3]

\* lines 140-151 for one row of df; w holds the three weights
ScoreRow(df, r, w) ==
    LET rating_norm == FDiv(r.rating, NormMax(df, "rating"))
        kcal_norm == FSub(Num(1), FDiv(r.avg_kcal, NormMax(df, "avg_kcal")))
        fat_norm == FSub(Num(1), FDiv(r.avg_fat, NormMax(df, "avg_fat")))
        eco_norm == FSub(Num(1), FDiv(r.avg_ecv, NormMax(df, "avg_ecv")))
        eco_healthy_score ==
            FAdd(FAdd(FMul(Frac(4, 10), eco_norm), FMul(Frac(3, 10), kcal_norm)),
                 FMul(Frac(3, 10), fat_norm))
        s0 == r.faiss_score
        s1 == FAdd(s0, FMul(w.rating_weight, rating_norm))
        s2 == FAdd(s1, FMul(w.veg_boost_weight, Num(IF r.is_vegetarian THEN 1 ELSE 0)))
        s3 == FAdd(s2, FMul(w.eco_healthy_weight, eco_healthy_score))
    IN  [recipe_id |-> r.recipe_id,
         faiss_score |-> r.faiss_score,
         rating |-> r.rating,
         is_vegetarian |-> r.is_vegetarian,
         avg_kcal |-> r.avg_kcal,
         avg_fat |-> r.avg_fat,
         avg_ecv |-> r.avg_ecv,
         rating_norm |-> rating_norm,
         kcal_norm |-> kcal_norm,
         fat_norm |-> fat_norm,
         eco_norm |-> eco_norm,
         final_score |-> s3]

ScoreAll(df, w) == [i \in DOMAIN df |-> ScoreRow(df, df[i], w)]

\* df.head(top_k)
Head_(df, top_k) == SubSeq(df, 1, Min2(top_k, Len(df)))

\* get_recipe_details: recipe_metadata.iloc[recipe_ids], by position
get_recipe_details(recipe_metadata, recipe_ids) ==
    [i \in DOMAIN recipe_ids |-> iloc(recipe_metadata, recipe_ids[i])]

\* str(x) of a float with a finite decimal expansion: "4.0", "4.5", "nan"
RECURSIVE Decimals(_, _)
Decimals(r, d) ==
    IF r = 0 THEN "" ELSE ToString((r * 10) \div d) \o Decimals((r * 10) % d, d)

FloatStr(x) ==
    IF IsNaN(x) THEN "nan"
    ELSE (IF x.n < 0 THEN "-" ELSE "") \o ToString(Abs(x.n) \div x.d) \o "."
         \o (IF Abs(x.n) % x.d = 0 THEN "0" ELSE Decimals(Abs(x.n) % x.d, x.d))

\* lines 91-99: one ingredient of a list of ingredients; an empty quantity or
\* unit is falsy
FormatIngredient(ing) ==
    IF ing.quantity # "" /\ ing.unit # ""
    THEN ing.quantity \o " " \o ing.unit \o " " \o ing.name
    ELSE IF ing.quantity # "" THEN ing.quantity \o " " \o ing.name
    ELSE ing.name

\* lines 89-100: the branch taken when the ingredients are a list
FormatIngredients(ingredients) ==
    Join([j \in DOMAIN ingredients |-> FormatIngredient(ingredients[j])])

\* format_retrieved_context on rows read from the csv: the ingredients cell is a
\* text, not a list, and is rendered as it is (the branch taken when it is not a list)
format_retrieved_context(recipe_details) ==
    [i \in DOMAIN recipe_details |->
        LET recipe == recipe_details[i]
        IN  "Recipe: " \o recipe.title \o "\n"
            \o "Rating: " \o FloatStr(recipe.rating) \o "\n"
            \o "Vegetarian: " \o (IF recipe.is_vege THEN "Yes" ELSE "No") \o "\n"
            \o "Ingredients: " \o recipe.ingredients \o "\n"]

DefaultWeights ==
    [rating_weight |-> Frac(15, 100), veg_boost_weight |-> Frac(2, 10),
     eco_healthy_weight |-> Frac(5, 10)]

\* the weights the callers pass: the defaults of the signature
Weights == {DefaultWeights}

\* the defaults with a rating weight of the caller's choice: none, the default,
\* and a large one
RatingWeights == {Num(0), Frac(15, 100), Num(1)}

WeightsByRating == {[DefaultWeights EXCEPT !.rating_weight = r] : r \in RatingWeights}

NoResult ==
    [status |-> "none", query |-> "", top_k |-> 0, weights |-> DefaultWeights,
     pool |-> <<>>, dedup |-> <<>>, scored |-> <<>>, ranked |-> <<>>, results |-> <<>>]

\* retrieve_recipes on the loaded artifacts; the outcome is recorded in ret.
\* (x \in {e} binds x to the value of e, computed once.)
retrieve_recipes(query, top_k, w) ==
    LET chunks == rt.chunk_metadata.data
        meta == rt.recipe_metadata.data
        call0 == [NoResult EXCEPT !.query = query, !.top_k = top_k, !.weights = w]
    IN  \E hits \in {search_similar_chunks(rt.faiss_index.data, encode_query(query), PoolSize)} :
        IF \E j \in DOMAIN hits : ~InRange(chunks, hits[j].idx)
        THEN ret' = [call0 EXCEPT !.status = "IndexError"]
        ELSE \E rows \in {PoolRows(chunks, hits)} :
             \E df \in sort_groupby_first(rows) :
                IF \E i \in DOMAIN df : df[i].recipe_id + 1 \notin DOMAIN meta
                THEN ret' = [call0 EXCEPT !.status = "KeyError", !.pool = rows, !.dedup = df]
                ELSE \E joined \in {JoinFeatures(df, meta)} :
                     \E scored \in {ScoreAll(joined, w)} :
                     \E ranked \in sort_values(scored, "final_score") :
                        ret' = [call0 EXCEPT
                            !.status = "ok",
                            !.pool = rows,
                            !.dedup = df,
                            !.scored = scored,
                            !.ranked = ranked,
                            !.results = format_retrieved_context(
                                get_recipe_details(meta,
                                    Column(Head_(ranked, top_k), "recipe_id")))]

(***************************************************************************)
(* Inputs of the model.                                                    *)
(***************************************************************************)
Ingredient(name) == [ingredient_name |-> name, quantity |-> "2", unit |-> "g"]

Recipe(title, names, rating, is_vege, avg_kcal, avg_fat, avg_ecv) ==
    [title |-> title, rating |-> rating, is_vege |-> is_vege, total_ecv |-> NaN,
     avg_kcal |-> avg_kcal, avg_fat |-> avg_fat, avg_ecv |-> avg_ecv,
     ingredients |-> [j \in DOMAIN names |-> Ingredient(names[j])]]

\* the recipes an input file of the pipeline is made of: one without any chunk,
\* and one with a title and two ingredient groups (six names, one of them empty)
Catalogue ==
    { Recipe("", <<>>, NaN, FALSE, NaN, NaN, NaN),
      Recipe("Beef Stew", <<"beef", "carrot", "onion", "", "salt", "wine">>,
             Num(4), FALSE, Num(250), Num(12), Num(7)) }

\* a recipe long enough for a second embedding batch and for more chunks than
\* the candidate pool holds: a title and LongIngredients names, five per chunk
LongNames == <<"salt", "egg", "oil", "flour">>

LongRecipe ==
    Recipe("Tomato Soup",
           [j \in 1..LongIngredients |-> LongNames[(j % Len(LongNames)) + 1]],
           Frac(9, 2), TRUE, Num(80), NaN, NaN)

SeqsUpTo(S, n) == UNION {[1..k -> S] : k \in 0..n}

Corpora == SeqsUpTo(Catalogue, MaxRecipes) \cup {<<LongRecipe>>}

Queries == {"beef stew"}

\* the recipes of the ranking scenarios: all features present (chunks of
\* different similarity), fat and eco value missing, every feature zero, and a
\* recipe without any chunk
RankCatalogue ==
    { Recipe("Beef Stew", <<"beef", "carrot", "onion", "", "salt", "wine">>,
             Num(4), FALSE, Num(250), Num(12), Num(7)),
      Recipe("Tomato Salad", <<>>, Num(3), TRUE, Num(60), NaN, NaN),
      Recipe("Water", <<>>, Num(0), TRUE, Num(0), Num(0), Num(0)),
      Recipe("", <<>>, Num(5), TRUE, Num(900), Num(90), Num(90)) }

\* three recipes without fat and eco value: two vegetarian ones whose title
\* chunks are as close to the query as a chunk can be, and one that is not close
ScenarioCorpus ==
    << Recipe("Tomato Tartare", <<>>, Frac(9, 2), TRUE, Num(80), NaN, NaN),
       Recipe("Beef Stew", <<>>, Num(4), FALSE, Num(250), NaN, NaN),
       Recipe("Tomato Risotto", <<>>, Num(3), TRUE, Num(60), NaN, NaN) >>

\* the input files process() completes on: at least one chunk
RankCorpora ==
    {c \in SeqsUpTo(RankCatalogue, MaxRankRecipes) :
        ChunkLoop(create_metadata(load_data(c)), 0, <<>>) # <<>>}
    \cup {<<LongRecipe>>, ScenarioCorpus}

\* the records create_recipe_chunks is called on, as rows of the metadata table
ChunkTitles == {"", "Soup"}

ChunkNames == {"", "egg", "oil"}

MetaRow(title, names) ==
    create_metadata(<<Recipe(title, names, NaN, FALSE, NaN, NaN, NaN)>>)[1]

(***************************************************************************)
(* Actions.                                                                *)
(***************************************************************************)
Init ==
    /\ corpus = <<>>
    /\ pc = "idle"
    /\ err = "none"
    /\ run = 0
    /\ ix = BlankIndexer
    /\ disk = [f \in Files |-> NoFile]
    /\ rt = NoRetriever
    /\ ret = NoResult
    /\ call = <<>>
    /\ th = <<>>

\* python RecipeIndexer.py: a run of process() on the input file of the day
StartProcess ==
    /\ pc \in {"idle", "done", "failed"}
    /\ run < MaxRuns
    /\ \E c \in Corpora : corpus' = c
    /\ pc' = "load"
    /\ err' = "none"
    /\ run' = run + 1
    /\ ix' = BlankIndexer
    /\ UNCHANGED <<disk, rt, ret, call, th>>

RetrieverKeep == UNCHANGED <<corpus, pc, err, run, ix, disk, ret, call, th>>

\* RecipeRetriever(): the constructor starts
NewRetriever ==
    /\ rt.rpc \in {"none", "ready", "failed"}
    /\ rt' = [NoRetriever EXCEPT !.rpc = "load_index"]
    /\ ret' = NoResult
    /\ UNCHANGED <<corpus, pc, err, run, ix, disk, call, th>>

\* one read of the constructor: field of the retriever, file, step after it
Load(from, field, name, to) ==
    /\ rt.rpc = from
    /\ IF disk[name].exists
       THEN rt' = [rt EXCEPT !.rpc = to,
                             ![field] = [run |-> disk[name].run,
                                         data |-> IF name = "recipes_metadata.csv"
                                                  THEN read_csv(disk[name].data)
                                                  ELSE disk[name].data]]
       ELSE rt' = [NoRetriever EXCEPT !.rpc = "failed"]
    /\ RetrieverKeep

LoadIndex == Load("load_index", "faiss_index", "recipes_faiss.index", "load_metadata")

LoadMetadata == Load("load_metadata", "recipe_metadata", "recipes_metadata.csv", "load_chunks")

LoadChunkMetadata == Load("load_chunks", "chunk_metadata", "chunk_metadata.pkl", "ready")

\* a call of retrieve_recipes with weights of W
RetrieveWith(W) ==
    /\ rt.rpc = "ready"
    /\ \E query \in Queries, top_k \in 1..MaxTopK, w \in W :
            retrieve_recipes(query, top_k, w)
    /\ UNCHANGED <<corpus, pc, err, run, ix, disk, rt, call, th>>

Retrieve == RetrieveWith(Weights)

\* the steps of the indexing pipeline
NextIndex ==
    \/ StartProcess
    \/ LoadData
    \/ CreateMetadata
    \/ CreateChunks
    \/ EmbedBatch
    \/ EmbedFail
    \/ Stack
    \/ BuildIndex
    \/ SaveMetadata
    \/ SaveChunkMetadata
    \/ SaveTextVectors
    \/ SaveIndex
    \/ SaveFail

\* the indexing pipeline and a retriever process side by side
Next ==
    \/ NextIndex
    \/ NewRetriever
    \/ LoadIndex
    \/ LoadMetadata
    \/ LoadChunkMetadata
    \/ Retrieve

\* the indexing pipeline alone: runs of process() one after the other
SpecIndex == Init /\ [][NextIndex]_vars

Spec == Init /\ [][Next]_vars

(***************************************************************************)
(* Retrieval on the artifacts of one completed run: the state after        *)
(* process() on an input file and RecipeRetriever() on what it wrote.      *)
(***************************************************************************)
\* the state after one complete run of process() over a corpus of C and the
\* construction of a retriever on its files; threads are the callers at rest
Deployed(C, threads) ==
    \E c \in C :
    \E df \in {load_data(c)} :
    \E metadata \in {create_metadata(df)} :
    \E chunk_metadata \in {ChunkLoop(metadata, 0, <<>>)} :
    \E texts \in {[i \in DOMAIN chunk_metadata |-> chunk_metadata[i].text]} :
    \E embeddings \in {EmbedLoop(texts, 0, DefaultBatchSize)} :
    \E text_vectors \in {StackAndNormalize(embeddings)} :
    \E index \in {build_faiss_index(text_vectors)} :
        LET d1 == WriteFile([f \in Files |-> NoFile], "recipes_metadata.csv", 1, to_csv(metadata))
            d2 == WriteFile(d1, "chunk_metadata.pkl", 1, chunk_metadata)
            d3 == WriteFile(d2, "text_vectors.pkl", 1, text_vectors)
            d4 == WriteFile(d3, "recipes_faiss.index", 1, index)
        IN  /\ corpus = c
            /\ pc = "done"
            /\ err = "none"
            /\ run = 1
            /\ ix = [df |-> df, metadata |-> metadata, chunk_metadata |-> chunk_metadata,
                     embeddings |-> embeddings, text_vectors |-> text_vectors,
                     index |-> index]
            /\ disk = d4
            /\ rt = [rpc |-> "ready",
                     faiss_index |-> [run |-> 1, data |-> index],
                     recipe_metadata |-> [run |-> 1, data |-> read_csv(to_csv(metadata))],
                     chunk_metadata |-> [run |-> 1, data |-> chunk_metadata]]
            /\ ret = NoResult
            /\ call = <<>>
            /\ th = threads

InitRank == Deployed(RankCorpora, <<>>)

SpecRank == InitRank /\ [][Retrieve]_vars

(***************************************************************************)
(* Two calls of retrieve_recipes on the same retriever, the caller keeping *)
(* the outcome of the first: the rating weight is the caller's choice.     *)
(***************************************************************************)
MaxMonoRecipes == 2

\* recipes with every feature present: two that differ in their rating alone
\* (same chunk texts up to the title, of the same length) and a third one
MonoCatalogue ==
    { Recipe("Beef Stew", <<"beef", "carrot", "onion", "", "salt", "wine">>,
             Num(4), FALSE, Num(250), Num(12), Num(7)),
      Recipe("Pork Stew", <<"beef", "carrot", "onion", "", "salt", "wine">>,
             Num(3), FALSE, Num(250), Num(12), Num(7)),
      Recipe("Tomato Salad", <<>>, Num(5), TRUE, Num(60), Num(3), Num(2)) }

MonoCorpora == SeqsUpTo(MonoCatalogue, MaxMonoRecipes) \ {<<>>}

InitMono == Deployed(MonoCorpora, <<>>)

RetrieveWeighted == RetrieveWith(WeightsByRating)

\* the caller keeps what the last call returned
Remember ==
    /\ ret.status # "none"
    /\ DOMAIN call = {}
    /\ call' = ret
    /\ UNCHANGED <<corpus, pc, err, run, ix, disk, rt, ret, th>>

SpecMono == InitMono /\ [][RetrieveWeighted \/ Remember]_vars

(***************************************************************************)
(* The index searched with its own vectors (tests/test_indexer.py,         *)
(* test_faiss_retrieval): the index and the vectors are read from the      *)
(* files of a completed run.                                               *)
(***************************************************************************)
TestTopK == 5

\* index.search(vectors[i:i+1], 5) for a position i of the vectors file
SearchStored ==
    /\ disk["recipes_faiss.index"].exists
    /\ disk["text_vectors.pkl"].exists
    /\ \E i \in DOMAIN disk["text_vectors.pkl"].data :
          call' = [i |-> i - 1,
                   I |-> search_similar_chunks(disk["recipes_faiss.index"].data,
                                               disk["text_vectors.pkl"].data[i], TestTopK)]
    /\ UNCHANGED <<corpus, pc, err, run, ix, disk, rt, ret, th>>

SpecSelf == InitRank /\ [][SearchStored]_vars

(***************************************************************************)
(* Concurrent retrieve_recipes calls on one retriever.  A call is a frame  *)
(* of locals; it reads self.faiss_index (line 117), self.chunk_metadata    *)
(* (line 120), self.recipe_metadata (lines 134-138) and                    *)
(* self.recipe_metadata again (line 156), and other calls run in between.  *)
(***************************************************************************)
MaxConcRecipes == 2

\* two callers, enough for one call to run between the reads of another
Threads == {1, 2}

\* the input files of the deployments the concurrent callers work on
ConcCorpora == {c \in RankCorpora : Len(c) <= MaxConcRecipes /\ c # <<LongRecipe>>}

\* the frame of a caller that is not inside retrieve_recipes
NoCall ==
    [pc |-> "idle", status |-> "none", query |-> "", top_k |-> 0,
     weights |-> DefaultWeights, hits |-> <<>>, df |-> <<>>, ranked |-> <<>>,
     results |-> <<>>]

ThreadKeep == UNCHANGED <<corpus, pc, err, run, ix, disk, ret, call>>

\* a caller enters retrieve_recipes
CallRetrieve(t) ==
    /\ th[t].pc \in {"idle", "done"}
    /\ \E query \in Queries, top_k \in 1..MaxTopK, w \in Weights :
          th' = [th EXCEPT ![t] = [NoCall EXCEPT !.pc = "search", !.query = query,
                                                 !.top_k = top_k, !.weights = w]]
    /\ UNCHANGED rt
    /\ ThreadKeep

\* lines 116-117: the query is encoded and the index searched
SearchChunks(t) ==
    /\ th[t].pc = "search"
    /\ th' = [th EXCEPT ![t].pc = "rows",
                        ![t].hits = search_similar_chunks(rt.faiss_index.data,
                                        encode_query(th[t].query), PoolSize)]
    /\ UNCHANGED rt
    /\ ThreadKeep

\* lines 118-132: the rows of the hits, from self.chunk_metadata, and the
\* deduplication of the local frame
BuildRows(t) ==
    /\ th[t].pc = "rows"
    /\ IF \E j \in DOMAIN th[t].hits : ~InRange(rt.chunk_metadata.data, th[t].hits[j].idx)
       THEN th' = [th EXCEPT ![t].pc = "done", ![t].status = "IndexError"]
       ELSE \E df \in sort_groupby_first(PoolRows(rt.chunk_metadata.data, th[t].hits)) :
               th' = [th EXCEPT ![t].pc = "features", ![t].df = df]
    /\ UNCHANGED rt
    /\ ThreadKeep

\* as JoinAndScore, with the rating column normalised in the shared table
\* (self.recipe_metadata["rating"] /= max) instead of in the local frame
JoinAndScoreInPlace(t) ==
    /\ th[t].pc = "features"
    /\ \A i \in DOMAIN th[t].df : th[t].df[i].recipe_id + 1 \in DOMAIN rt.recipe_metadata.data
    /\ \E meta \in {[i \in DOMAIN rt.recipe_metadata.data |->
                        [rt.recipe_metadata.data[i] EXCEPT
                            !.rating = FDiv(@, ColMax(Column(rt.recipe_metadata.data,
                                                             "rating")))]]} :
       \E ranked \in sort_values(ScoreAll(JoinFeatures(th[t].df, meta), th[t].weights),
                                 "final_score") :
          /\ th' = [th EXCEPT ![t].pc = "details", ![t].ranked = ranked]
          /\ rt' = [rt EXCEPT !.recipe_metadata.data = meta]
    /\ ThreadKeep

\* lines 134-153: the features are read from self.recipe_metadata into the
\* local frame, which is then scored and sorted
JoinAndScore(t) ==
    /\ th[t].pc = "features"
    /\ IF \E i \in DOMAIN th[t].df :
             th[t].df[i].recipe_id + 1 \notin DOMAIN rt.recipe_metadata.data
       THEN th' = [th EXCEPT ![t].pc = "done", ![t].status = "KeyError"]
       ELSE \E ranked \in sort_values(ScoreAll(JoinFeatures(th[t].df, rt.recipe_metadata.data),
                                               th[t].weights), "final_score") :
               th' = [th EXCEPT ![t].pc = "details", ![t].ranked = ranked]
    /\ UNCHANGED rt
    /\ ThreadKeep

\* lines 155-158: the rows of the best top_k recipes, formatted and returned
Details(t) ==
    /\ th[t].pc = "details"
    /\ th' = [th EXCEPT ![t].pc = "done", ![t].status = "ok",
                        ![t].results = format_retrieved_context(
                            get_recipe_details(rt.recipe_metadata.data,
                                Column(Head_(th[t].ranked, th[t].top_k), "recipe_id")))]
    /\ UNCHANGED rt
    /\ ThreadKeep

InitServe == Deployed(ConcCorpora, [t \in Threads |-> NoCall])

NextServe ==
    \E t \in Threads :
        \/ CallRetrieve(t)
        \/ SearchChunks(t)
        \/ BuildRows(t)
        \/ JoinAndScore(t)
        \/ Details(t)

\* one retriever serving its callers at the same time
SpecServe == InitServe /\ [][NextServe]_vars

(***************************************************************************)
(* create_recipe_chunks on its own: one call per record and chunk size.    *)
(***************************************************************************)
InitChunk ==
    /\ corpus = <<>>
    /\ pc = "idle"
    /\ err = "none"
    /\ run = 0
    /\ ix = BlankIndexer
    /\ disk = [f \in Files |-> NoFile]
    /\ rt = NoRetriever
    /\ ret = NoResult
    /\ th = <<>>
    /\ \E title \in ChunkTitles, names \in SeqsUpTo(ChunkNames, MaxNames),
          chunk_size \in 1..MaxChunkSize :
            call = [meta_row |-> MetaRow(title, names), chunk_size |-> chunk_size,
                    done |-> FALSE, chunks |-> <<>>]

CallChunker ==
    /\ ~call.done
    /\ call' = [call EXCEPT !.done = TRUE,
                            !.chunks = create_recipe_chunks(call.meta_row, call.chunk_size)]
    /\ UNCHANGED <<corpus, pc, err, run, ix, disk, rt, ret, th>>

SpecChunk == InitChunk /\ [][CallChunker]_vars

(***************************************************************************)
(* embed_text_batch on its own: one call per list of texts and batch size. *)
(***************************************************************************)
MaxTexts == 3

MaxBatchSize == 3

\* texts whose raw vectors differ, one of them with the zero vector
EmbedTexts == {"egg", "salt", "Title: Soup"}

\* embed_text_batch: the batches are encoded, stacked and normalised; np.vstack
\* raises ValueError on an empty list of batches
embed_text_batch(texts, batch_size) ==
    LET embeddings == EmbedLoop(texts, 0, batch_size)
    IN  IF embeddings = <<>>
        THEN [status |-> "ValueError", vectors |-> <<>>]
        ELSE [status |-> "ok", vectors |-> StackAndNormalize(embeddings)]

InitEmbed ==
    /\ corpus = <<>>
    /\ pc = "idle"
    /\ err = "none"
    /\ run = 0
    /\ ix = BlankIndexer
    /\ disk = [f \in Files |-> NoFile]
    /\ rt = NoRetriever
    /\ ret = NoResult
    /\ th = <<>>
    /\ \E texts \in SeqsUpTo(EmbedTexts, MaxTexts), batch_size \in 1..MaxBatchSize :
          call = [texts |-> texts, batch_size |-> batch_size, done |-> FALSE,
                  status |-> "none", vectors |-> <<>>]

CallEmbedder ==
    /\ ~call.done
    /\ \E out \in {embed_text_batch(call.texts, call.batch_size)} :
          call' = [call EXCEPT !.done = TRUE, !.status = out.status,
                               !.vectors = out.vectors]
    /\ UNCHANGED <<corpus, pc, err, run, ix, disk, rt, ret, th>>

SpecEmbed == InitEmbed /\ [][CallEmbedder]_vars

(***************************************************************************)
(* Properties of the indexing pipeline.                                    *)
(***************************************************************************)
ChunksOf(recipe_id) == SelectSeq(ix.chunk_metadata, LAMBDA c : c.recipe_id = recipe_id)

\* C1: once process() has completed, the chunk record at list position i has
\* global_chunk_id i (0-based), the records follow recipe_id order and, within a
\* recipe, the order of the chunker with chunk_id counting from 0, and row i of
\* the vector array and of the index is the normalised embedding of the text of
\* record i; the files written hold the same lists.
C1_ChunkIdIsRowAddress ==
    pc = "done" =>
        LET cm == ix.chunk_metadata
        IN  /\ \A i \in DOMAIN cm : cm[i].global_chunk_id = i - 1
            /\ \A i, j \in DOMAIN cm : i < j => cm[i].recipe_id <= cm[j].recipe_id
            /\ \A r \in 0..(Len(ix.metadata) - 1) :
                    LET own == ChunksOf(r)
                        chunks == create_recipe_chunks(ix.metadata[r + 1], DefaultChunkSize)
                    IN  /\ Len(own) = Len(chunks)
                        /\ \A k \in DOMAIN own :
                                own[k].chunk_id = k - 1 /\ own[k].text = chunks[k]
            /\ \A i \in DOMAIN cm : cm[i].recipe_id \in 0..(Len(ix.metadata) - 1)
            /\ Len(ix.text_vectors) = Len(cm)
            /\ Len(ix.index.rows) = Len(cm)
            /\ \A i \in DOMAIN cm :
                    /\ ix.text_vectors[i] = NormalizeL2(Encode(cm[i].text))
                    /\ ix.index.rows[i] = ix.text_vectors[i]
            /\ disk["chunk_metadata.pkl"].data = cm
            /\ disk["text_vectors.pkl"].data = ix.text_vectors
            /\ disk["recipes_faiss.index"].data = ix.index

\* C1 witness: a completed run over two recipes that both have several chunks
C1_Witness ==
    /\ pc = "done"
    /\ Len(ix.metadata) = 2
    /\ Len(ChunksOf(0)) >= 2
    /\ Len(ChunksOf(1)) >= 2

\* C8: a corpus that produces zero chunks is indexed without an error (and the
\* empty index then answers queries with an empty result): a run that has no
\* chunk never ends in an exception of the pipeline's own.
C8_ZeroChunksNoError ==
    (pc = "failed" /\ ix.chunk_metadata = <<>>) => err \in {"EmbedError", "IOError"}

DiskComplete(r) == \A f \in Files : disk[f].exists /\ disk[f].run = r

DiskEmpty == \A f \in Files : ~disk[f].exists

\* C9: when process() has failed, the directory holds the complete artifact set
\* of one run (the previous one, this run having written nothing) or no artifact.
C9_AllOrNothing ==
    pc = "failed" => (DiskEmpty \/ \E r \in 1..MaxRuns : DiskComplete(r))

\* C10: when an embedding call has failed, no file of the directory was written
\* by the failed run.
C10_EmbedFailureWritesNothing ==
    (pc = "failed" /\ err = "EmbedError") => \A f \in Files : disk[f].run # run

\* C10 witness: the second run fails in an embedding call and the artifacts of
\* the first run are all still there
C10_Witness ==
    /\ pc = "failed"
    /\ err = "EmbedError"
    /\ run = 2
    /\ DiskComplete(1)

(***************************************************************************)
(* Properties of create_recipe_chunks (SpecChunk).                         *)
(***************************************************************************)
CallTitle == call.meta_row.title

CallNames == [j \in DOMAIN call.meta_row.ingredients |-> call.meta_row.ingredients[j].name]

\* ceil(n / chunk_size)
GroupCount(n, chunk_size) == (n + chunk_size - 1) \div chunk_size

\* the g-th (0-based) group of up to chunk_size consecutive names
Group(names, g, chunk_size) ==
    SubSeq(names, g * chunk_size + 1, Min2((g + 1) * chunk_size, Len(names)))

TitleChunks == IF CallTitle # "" THEN 1 ELSE 0

\* C2 as stated: the call returns ceil(ingredient_count / chunk_size) chunks,
\* plus one when the title is not empty.
C2_CountIsCeilPlusTitle ==
    call.done =>
        Len(call.chunks) = GroupCount(Len(CallNames), call.chunk_size) + TitleChunks

\* the groups that give a chunk: all but a group made of one empty name
KeptGroups ==
    {g \in 0..(GroupCount(Len(CallNames), call.chunk_size) - 1) :
        Group(CallNames, g, call.chunk_size) # <<"">>}

\* C2 amended: the call returns the title chunk first when the title is not empty,
\* then, in the original order, one chunk per group of up to chunk_size
\* consecutive names whose comma-joined text is not empty; a group made of a
\* single empty name gives no chunk, so the count is the number of such groups
\* plus one for the title.
C2_ChunksAreNonEmptyGroups ==
    call.done =>
        /\ Len(call.chunks) = TitleChunks + Cardinality(KeptGroups)
        /\ CallTitle # "" => call.chunks[1] = "Title: " \o CallTitle
        /\ \A g \in KeptGroups :
                call.chunks[TitleChunks + Cardinality({h \in KeptGroups : h <= g})]
                    = "Ingredients: " \o Join(Group(CallNames, g, call.chunk_size))

\* C2 witness: a titled record of three names in groups of two, the last group
\* being one empty name: the title chunk and one ingredient chunk come back
C2_Witness ==
    /\ call # <<>>
    /\ call.done
    /\ CallTitle = "Soup"
    /\ CallNames = <<"egg", "oil", "">>
    /\ call.chunk_size = 2
    /\ call.chunks = <<"Title: Soup", "Ingredients: egg, oil">>

(***************************************************************************)
(* Properties of retrieve_recipes (SpecRank).                              *)
(***************************************************************************)
PoolIds == {ret.pool[j].recipe_id : j \in DOMAIN ret.pool}

PoolScores(recipe_id) ==
    {ret.pool[j].faiss_score : j \in {k \in DOMAIN ret.pool : ret.pool[k].recipe_id = recipe_id}}

\* C3: every recipe that has a chunk in the candidate pool is in the
\* deduplicated set exactly once, no other recipe is, and the similarity kept
\* for it is the greatest of the scores of its chunks in the pool.
C3_DedupKeepsBestChunk ==
    ret.status = "ok" =>
        /\ \A r \in PoolIds :
                Cardinality({i \in DOMAIN ret.dedup : ret.dedup[i].recipe_id = r}) = 1
        /\ \A i \in DOMAIN ret.dedup :
                /\ ret.dedup[i].recipe_id \in PoolIds
                /\ ret.dedup[i].faiss_score \in PoolScores(ret.dedup[i].recipe_id)
                /\ \A x \in PoolScores(ret.dedup[i].recipe_id) :
                        ~FLess(ret.dedup[i].faiss_score, x)

\* C3 witness: recipe 0 has chunks of similarity 0 and 4/5 among the hits, and a
\* second recipe is in the pool too
C3_Witness ==
    /\ ret.status = "ok"
    /\ {Num(0), Frac(4, 5)} \subseteq PoolScores(0)
    /\ Len(ret.dedup) >= 2
    /\ ret.dedup[1].recipe_id = 0
    /\ ret.dedup[1].faiss_score = Frac(4, 5)

\* C4: the ranked candidates are in descending final_score, candidates of equal
\* final_score in ascending recipe_id, and the result is the first top_k of them.
C4_TiesByAscendingRecipeId ==
    ret.status = "ok" =>
        /\ \A i, j \in DOMAIN ret.ranked :
                i < j =>
                    /\ ~FLess(ret.ranked[i].final_score, ret.ranked[j].final_score)
                    /\ FEq(ret.ranked[i].final_score, ret.ranked[j].final_score)
                            => ret.ranked[i].recipe_id < ret.ranked[j].recipe_id
        /\ Len(ret.results) = Min2(ret.top_k, Len(ret.ranked))

Features == {"rating", "avg_kcal", "avg_fat", "avg_ecv"}

NormOf(col) ==
    CASE col = "rating" -> "rating_norm"
      [] col = "avg_kcal" -> "kcal_norm"
      [] col = "avg_fat" -> "fat_norm"
      [] col = "avg_ecv" -> "eco_norm"

FeatureValues(col) == {ret.scored[i][col] : i \in DOMAIN ret.scored} \ {NaN}

\* C5: when the greatest value of a feature over the deduplicated pool is zero,
\* or no candidate has the feature, the normalised term of the feature is 0 for
\* every candidate and no final_score is NaN.
C5_ZeroOrMissingMaxIsNeutral ==
    ret.status = "ok" =>
        \A col \in Features :
            FeatureValues(col) \subseteq {Num(0)} =>
                \A i \in DOMAIN ret.scored :
                    /\ ret.scored[i][NormOf(col)] = Num(0)
                    /\ ~IsNaN(ret.scored[i].final_score)

\* C6: a candidate that lacks avg_kcal, avg_fat or avg_ecv while another
\* candidate of the pool has it (with a maximum above zero) still gets a defined
\* final_score.
C6_MissingFeatureStillScored ==
    ret.status = "ok" =>
        \A col \in Features \ {"rating"} :
            \A i \in DOMAIN ret.scored :
                (IsNaN(ret.scored[i][col]) /\ FeatureValues(col) \ {Num(0)} # {})
                    => ~IsNaN(ret.scored[i].final_score)

\* the greatest value of a feature among the deduplicated candidates
PoolMax(col) ==
    IF FeatureValues(col) = {} THEN NaN
    ELSE CHOOSE m \in FeatureValues(col) : \A x \in FeatureValues(col) : ~FLess(m, x)

\* lower is better: 1 - value / max
Inverse(r, col) == FSub(Num(1), FDiv(r[col], PoolMax(col)))

\* C7: final_score = similarity + rating_weight * rating / max
\* + veg_boost_weight * is_vegetarian + eco_healthy_weight * (0.4 * eco_norm
\* + 0.3 * kcal_norm + 0.3 * fat_norm), the norms being 1 - value / max and
\* every max the greatest value among the deduplicated candidates of the query.
\* (Where a term is undefined both sides are NaN.)
C7_FinalScoreFormula ==
    ret.status = "ok" =>
        /\ Len(ret.scored) = Len(ret.dedup)
        /\ \A i \in DOMAIN ret.scored :
            LET r == ret.scored[i]
                w == ret.weights
                eco_healthy_score ==
                    FAdd(FAdd(FMul(Frac(2, 5), Inverse(r, "avg_ecv")),
                              FMul(Frac(3, 10), Inverse(r, "avg_kcal"))),
                         FMul(Frac(3, 10), Inverse(r, "avg_fat")))
            IN  /\ r.recipe_id = ret.dedup[i].recipe_id
                /\ r.faiss_score = ret.dedup[i].faiss_score
                /\ r.final_score =
                    FAdd(FAdd(FAdd(r.faiss_score,
                                   FMul(w.rating_weight, FDiv(r.rating, PoolMax("rating")))),
                              FMul(w.veg_boost_weight, Num(IF r.is_vegetarian THEN 1 ELSE 0))),
                         FMul(w.eco_healthy_weight, eco_healthy_score))

\* C7 witness: two candidates with every feature and a defined final_score,
\* scored with the default weights, in a corpus whose third recipe has no chunk
\* (so is no candidate) and has greater feature values than both
C7_Witness ==
    /\ ret.status = "ok"
    /\ ret.weights = DefaultWeights
    /\ Len(ret.scored) = 2
    /\ \A i \in DOMAIN ret.scored : ~IsNaN(ret.scored[i].final_score)
    /\ ret.scored[1].final_score # ret.scored[2].final_score
    /\ Len(rt.recipe_metadata.data) = 3
    /\ \E k \in DOMAIN rt.recipe_metadata.data :
            /\ k - 1 \notin PoolIds
            /\ FLess(PoolMax("rating"), rt.recipe_metadata.data[k].rating)
            /\ FLess(PoolMax("avg_kcal"), rt.recipe_metadata.data[k].avg_kcal)

(***************************************************************************)
(* The artifact set a retriever holds                                      *)
(***************************************************************************)
\* the indexing runs the three loaded artifacts come from
LoadedRuns == {rt.faiss_index.run, rt.recipe_metadata.run, rt.chunk_metadata.run}

\* C11: every retrieve call works on an index, a recipe metadata table and
\* a chunk metadata table written by one and the same indexing run
C11_RetrieveOnOneRun ==
    ret.status # "none" => Cardinality(LoadedRuns) = 1

\* every chunk record names a row of the recipe metadata table, and there
\* are as many chunk records as vectors in the index
ArtifactsConsistent ==
    /\ \A i \in DOMAIN rt.chunk_metadata.data :
          rt.chunk_metadata.data[i].recipe_id + 1 \in DOMAIN rt.recipe_metadata.data
    /\ Len(rt.chunk_metadata.data) = Len(rt.faiss_index.data.rows)

\* C12: a constructor that read an inconsistent artifact set has failed: no
\* retriever is ready to serve on a chunk record without a metadata row or on
\* a chunk table and an index of different lengths
C12_InconsistentSetFailsAtLoad ==
    rt.rpc = "ready" => ArtifactsConsistent

(***************************************************************************)
(* Properties of concurrent retrieve_recipes calls (SpecServe).            *)
(***************************************************************************)
\* what retrieve_recipes returns when it runs alone on the artifacts of the
\* directory: one result per order the two sorts may leave ties in
Alone(query, top_k, w) ==
    LET index == disk["recipes_faiss.index"].data
        chunks == disk["chunk_metadata.pkl"].data
        meta == read_csv(disk["recipes_metadata.csv"].data)
        hits == search_similar_chunks(index, encode_query(query), PoolSize)
    IN  { format_retrieved_context(get_recipe_details(meta,
              Column(Head_(ranked, top_k), "recipe_id"))) :
            ranked \in UNION { sort_values(ScoreAll(JoinFeatures(df, meta), w), "final_score") :
                                 df \in sort_groupby_first(PoolRows(chunks, hits)) } }

\* C13: whatever the interleaving of the calls, the loaded index, recipe table
\* and chunk table stay what the constructor read, and every call that has
\* returned returned a result of the same call run alone
C13_CallsDoNotInterfere ==
    /\ rt.faiss_index.data = disk["recipes_faiss.index"].data
    /\ rt.recipe_metadata.data = read_csv(disk["recipes_metadata.csv"].data)
    /\ rt.chunk_metadata.data = disk["chunk_metadata.pkl"].data
    /\ \A t \in DOMAIN th :
          th[t].pc = "done" =>
              /\ th[t].status = "ok"
              /\ th[t].results \in Alone(th[t].query, th[t].top_k, th[t].weights)

\* two calls are under way at once, one of them past its read of the recipe
\* features while the other has returned
C13_Witness ==
    \E t, u \in DOMAIN th :
        /\ t # u
        /\ th[t].pc = "done"
        /\ th[t].results # <<>>
        /\ th[u].pc = "details"

(***************************************************************************)
(* Properties of the rating weight (SpecMono): call is the outcome of a    *)
(* first call, ret the outcome of a later one.                             *)
(***************************************************************************)
\* the position of a recipe in a ranked frame
PosOf(ranked, recipe_id) == CHOOSE i \in DOMAIN ranked : ranked[i].recipe_id = recipe_id

\* the final score of a row without its rating term
RestScore(r, w) == FSub(r.final_score, FMul(w.rating_weight, r.rating_norm))

\* ret is a call with the arguments of call, but for a rating weight that is
\* not lower; the sort being a function of the frame it is given, two calls
\* that score the candidates alike rank them alike
SecondCallRaisesRating ==
    /\ DOMAIN call # {}
    /\ call.status = "ok"
    /\ ret.status = "ok"
    /\ ret.query = call.query
    /\ ret.weights.veg_boost_weight = call.weights.veg_boost_weight
    /\ ret.weights.eco_healthy_weight = call.weights.eco_healthy_weight
    /\ ~FLess(ret.weights.rating_weight, call.weights.rating_weight)
    /\ (ret.scored = call.scored => ret.ranked = call.ranked)

\* candidates a and b (rows of the first ranking) differ by their rating term
\* alone, a having the higher rating
TiedButForRating(a, b) ==
    /\ FLess(b.rating, a.rating)
    /\ FEq(RestScore(a, call.weights), RestScore(b, call.weights))

\* C14: a higher-rated candidate that is ranked above a lower-rated one, the
\* two tied but for the rating term, is still above it in a call with the same
\* arguments and a rating weight that is not lower
C14_RatingMonotone ==
    SecondCallRaisesRating =>
        \A i, j \in DOMAIN call.ranked :
            (i < j /\ TiedButForRating(call.ranked[i], call.ranked[j]))
                => PosOf(ret.ranked, call.ranked[i].recipe_id)
                       < PosOf(ret.ranked, call.ranked[j].recipe_id)

\* the first call left the higher-rated of two tied candidates on top with no
\* rating weight at all, and the second call has a positive rating weight
C14_Witness ==
    /\ SecondCallRaisesRating
    /\ call.weights.rating_weight = Num(0)
    /\ FLess(Num(0), ret.weights.rating_weight)
    /\ \E i, j \in DOMAIN call.ranked :
          i < j /\ TiedButForRating(call.ranked[i], call.ranked[j])

(***************************************************************************)
(* The scenario of three recipes (SpecRank).                               *)
(***************************************************************************)
\* the similarity of a candidate of the last call
SimilarityOf(recipe_id) ==
    ret.dedup[CHOOSE i \in DOMAIN ret.dedup : ret.dedup[i].recipe_id = recipe_id].faiss_score

\* the last call ran with the default weights on the three recipes, R0 and R2
\* sharing the top similarity and R1 not exceeding it
ScenarioCall ==
    /\ corpus = ScenarioCorpus
    /\ ret.status = "ok"
    /\ ret.weights = DefaultWeights
    /\ Column(ret.dedup, "recipe_id") = <<0, 1, 2>>
    /\ FEq(SimilarityOf(0), SimilarityOf(2))
    /\ ~FLess(SimilarityOf(0), SimilarityOf(1))

\* C15: in the scenario retrieve_recipes returns R0, then R2, then R1 (the
\* first top_k of them)
C15_ScenarioOrder ==
    ScenarioCall =>
        Column(Head_(ret.ranked, ret.top_k), "recipe_id") = Head_(<<0, 2, 1>>, ret.top_k)

(***************************************************************************)
(* Properties of load_data (SpecIndex).                                    *)
(***************************************************************************)
\* the ratings present in the input file, in ascending order
PresentRatings == SortAsc(SelectSeq([i \in DOMAIN corpus |-> corpus[i].rating],
                                    LAMBDA x : ~IsNaN(x)))

\* x is the middle value of the ratings present, or the mean of the two
\* middle values
IsMedianOfPresent(x) ==
    LET m == Len(PresentRatings)
    IN  /\ m > 0
        /\ IF m % 2 = 1 THEN FEq(x, PresentRatings[(m + 1) \div 2])
           ELSE FEq(FAdd(x, x), FAdd(PresentRatings[m \div 2], PresentRatings[m \div 2 + 1]))

\* C16: once load_data has run every recipe has a rating value, the ratings
\* of the input file are unchanged and each absent one is the median of those
\* present; create_metadata reads the filled values
C16_EveryRatingFilled ==
    pc \notin {"idle", "load"} =>
        /\ DOMAIN ix.df = DOMAIN corpus
        /\ \A i \in DOMAIN corpus :
              /\ ~IsNaN(ix.df[i].rating)
              /\ ~IsNaN(corpus[i].rating) => ix.df[i].rating = corpus[i].rating
              /\ IsNaN(corpus[i].rating) => IsMedianOfPresent(ix.df[i].rating)
        /\ \A i \in DOMAIN ix.metadata : ix.metadata[i].rating = ix.df[i].rating

(***************************************************************************)
(* Recipes without any chunk (Spec).                                       *)
(***************************************************************************)
\* the positions of the input file holding a recipe with an empty title and
\* no ingredients
Chunkless == {i \in DOMAIN corpus : corpus[i].title = "" /\ corpus[i].ingredients = <<>>}

\* C17: a recipe with an empty title and no ingredients has no chunk record,
\* keeps its row in the metadata table (the rows after it stay where the input
\* file has them), does not make the run fail, and is in no result of a
\* retriever that loaded the files of the run
C17_ChunklessRecipeIsHarmless ==
    /\ (pc \notin {"idle", "load", "meta"} /\ Chunkless # {}) =>
          /\ Len(ix.metadata) = Len(corpus)
          /\ \A i \in DOMAIN corpus : ix.metadata[i].title = corpus[i].title
    /\ (pc \notin {"idle", "load", "meta", "chunk"} /\ Chunkless # {}) =>
          \A i \in Chunkless, j \in DOMAIN ix.chunk_metadata :
              ix.chunk_metadata[j].recipe_id # i - 1
    /\ Chunkless # {} => ~(pc = "failed" /\ err = "ValueError")
    /\ (ret.status = "ok" /\ pc = "done" /\ LoadedRuns = {run}) =>
          \A i \in Chunkless, j \in DOMAIN ret.ranked : ret.ranked[j].recipe_id # i - 1

(***************************************************************************)
(* Properties of embed_text_batch (SpecEmbed).                             *)
(***************************************************************************)
\* the batch size of a call that encodes all its texts in one batch
Unbatched == IF call.texts = <<>> THEN 1 ELSE Len(call.texts)

\* what C18 says of a call that returned rows: one row per text, row i the
\* normalised embedding of texts[i], the rows of the unbatched call
OneRowPerText ==
    /\ Len(call.vectors) = Len(call.texts)
    /\ \A i \in DOMAIN call.texts : call.vectors[i] = NormalizeL2(Encode(call.texts[i]))
    /\ call.vectors = embed_text_batch(call.texts, Unbatched).vectors

\* C18: for every list of texts and batch size embed_text_batch returns one
\* row per text, row i the normalised embedding of texts[i], the same rows as
\* the unbatched call
C18_BatchingIsTransparent ==
    call.done => (call.status = "ok" /\ OneRowPerText)

\* as C18 for the calls that return
C18_NonEmptyBatchingIsTransparent ==
    (call.done /\ call.status = "ok") => OneRowPerText

(***************************************************************************)
(* Properties of a search with a stored vector (SpecSelf).                 *)
(***************************************************************************)
StoredRows == disk["recipes_faiss.index"].data.rows

IsZeroRow(v) == \A k \in DOMAIN v : v[k] = Num(0)

\* the first (0-based) position of the index holding the row of position i;
\* every row scores 0 against a zero row, and the first of them is position 0
FirstEqual(i) ==
    IF IsZeroRow(StoredRows[i + 1]) THEN 0
    ELSE (CHOOSE j \in DOMAIN StoredRows :
            /\ StoredRows[j] = StoredRows[i + 1]
            /\ \A k \in DOMAIN StoredRows : StoredRows[k] = StoredRows[i + 1] => j <= k) - 1

Presentation(row) ==
    "Recipe: " \o row.title \o "\n"
        \o "Rating: " \o FloatStr(row.rating) \o "\n"
        \o "Vegetarian: " \o (IF row.is_vege THEN "Yes" ELSE "No") \o "\n"
        \o "Ingredients: " \o FormatIngredients(row.ingredients) \o "\n"

\* C20: every record returned by retrieve_recipes, on the metadata table read
\* back from the csv, carries the title, the rating, the vegetarian flag and
\* the ingredients flattened as 'quantity unit name', 'quantity name' or 'name'
C20_PresentationFromLoadedTable ==
    ret.status = "ok" =>
        \A k \in DOMAIN ret.results :
            ret.results[k] = Presentation(ix.metadata[ret.ranked[k].recipe_id + 1])

(***************************************************************************)
(* Properties of the stored vectors (SpecIndex).                           *)
(***************************************************************************)
\* the squared Euclidean norm of a row of floats
SquaredNorm(v) ==
    IF Len(v) = 0 THEN Num(0)
    ELSE IF Len(v) = 1 THEN FMul(v[1], v[1])
    ELSE FAdd(FMul(v[1], v[1]), FMul(v[2], v[2]))

\* the norm of the row is 1 within 1e-3
UnitWithinTolerance(v) ==
    /\ FLess(FMul(Frac(999, 1000), Frac(999, 1000)), SquaredNorm(v))
    /\ FLess(SquaredNorm(v), FMul(Frac(1001, 1000), Frac(1001, 1000)))

\* the raw encodings of the chunk texts, batch after batch
RawRows == Flatten(ix.embeddings)

\* row i of a table of vectors is the zero row when the raw encoding of text i
\* is the zero vector, and has norm 1 otherwise
RowsAreUnitOrZero(rows) ==
    /\ Len(rows) = Len(RawRows)
    /\ \A i \in DOMAIN rows :
          IF SumSq(RawRows[i]) = 0
          THEN \A k \in DOMAIN rows[i] : rows[i][k] = Num(0)
          ELSE UnitWithinTolerance(rows[i])

\* C21: every vector returned by embed_text_batch, and every row of the vector
\* file and of the index written by the run, has norm 1 within 1e-3, but for
\* the rows whose raw encoding is the zero vector, which are zero
C21_VectorsAreUnitOrZero ==
    /\ pc \in {"build", "save_metadata", "save_chunk_metadata", "save_text_vectors",
               "save_index", "done"}
          => RowsAreUnitOrZero(ix.text_vectors)
    /\ pc = "done" =>
          /\ RowsAreUnitOrZero(disk["text_vectors.pkl"].data)
          /\ RowsAreUnitOrZero(disk["recipes_faiss.index"].data.rows)

\* a completed run wrote an index holding a unit row and a zero row
C21_Witness ==
    /\ pc = "done"
    /\ disk["recipes_faiss.index"].run = run
    /\ \E i, j \in DOMAIN RawRows :
          /\ SumSq(RawRows[i]) = 0
          /\ SumSq(RawRows[j]) > 1
          /\ UnitWithinTolerance(disk["recipes_faiss.index"].data.rows[j])

(***************************************************************************)
(* Properties of the length of the result (SpecRank).                      *)
(***************************************************************************)
\* the recipes of the chunks the search fetched: the rows of the pool that
\* are not unfilled slots
FetchedRecipes ==
    {ret.pool[j].recipe_id : j \in {k \in DOMAIN ret.pool : ret.pool[k].faiss_score # PadScore}}

\* the recipes of the result, in the order of the result
ResultIds == Column(Head_(ret.ranked, ret.top_k), "recipe_id")

\* C22: the result holds no recipe twice and as many records as top_k allows
\* among the distinct recipes of the fetched chunks; the pool has PoolSize
\* slots whatever top_k is
C22_OneRecordPerRecipe ==
    ret.status = "ok" =>
        /\ Len(ret.pool) = PoolSize
        /\ Len(ret.results) = Min2(ret.top_k, Cardinality(FetchedRecipes))
        /\ Len(ResultIds) = Len(ret.results)
        /\ \A i, j \in DOMAIN ResultIds : i # j => ResultIds[i] # ResultIds[j]
        /\ Len(ret.results) <= PoolSize

\* a call that fetched several chunks of one recipe and the chunks of another,
\* and returned one record for each of the two
C22_Witness ==
    /\ ret.status = "ok"
    /\ ret.top_k = 2
    /\ Cardinality(FetchedRecipes) = 2
    /\ Len(ret.results) = 2
    /\ \E j, k \in DOMAIN ret.pool :
          /\ j # k
          /\ ret.pool[j].faiss_score # PadScore
          /\ ret.pool[k].faiss_score # PadScore
          /\ ret.pool[j].recipe_id = ret.pool[k].recipe_id

(***************************************************************************)
(* Properties of the unfilled slots of the search (SpecRank).              *)
(***************************************************************************)
IndexRows == rt.faiss_index.data.rows

\* the positions of the index holding a chunk of the recipe
RealChunks(recipe_id) ==
    {j \in DOMAIN rt.chunk_metadata.data : rt.chunk_metadata.data[j].recipe_id = recipe_id}

\* the recipes having a chunk in the index
IndexedRecipes == {rt.chunk_metadata.data[j].recipe_id : j \in DOMAIN rt.chunk_metadata.data}

\* the similarity of the query of the last call to the row of position j
SimilarityAt(j) == Dot(IndexRows[j], encode_query(ret.query))

\* the last call searched an index with fewer rows than the pool has slots
CallWithUnfilledSlots ==
    /\ ret.status = "ok"
    /\ Len(IndexRows) >= 1
    /\ Len(IndexRows) < PoolSize

\* C23: with 1 to 49 rows in the index, the candidates left by the
\* deduplication are the recipes having a chunk in the index, each once, and
\* the score kept for a recipe is the greatest similarity of its chunks
C23_UnfilledSlotsAreHarmless ==
    CallWithUnfilledSlots =>
        /\ {ret.dedup[i].recipe_id : i \in DOMAIN ret.dedup} = IndexedRecipes
        /\ Len(ret.dedup) = Cardinality(IndexedRecipes)
        /\ \A i \in DOMAIN ret.dedup :
              /\ \E j \in RealChunks(ret.dedup[i].recipe_id) :
                    ret.dedup[i].faiss_score = SimilarityAt(j)
              /\ \A j \in RealChunks(ret.dedup[i].recipe_id) :
                    ~FLess(ret.dedup[i].faiss_score, SimilarityAt(j))

\* the pool of the call holds unfilled slots next to the chunks of two
\* recipes, the last of which has several chunks
C23_Witness ==
    /\ CallWithUnfilledSlots
    /\ \E j \in DOMAIN ret.pool : ret.pool[j].faiss_score = PadScore
    /\ Cardinality(IndexedRecipes) = 2
    /\ Cardinality(RealChunks(rt.chunk_metadata.data[Len(rt.chunk_metadata.data)].recipe_id)) > 1

(***************************************************************************)
(* Properties of the recipe addressed by a recipe_id (SpecRank).           *)
(***************************************************************************)
\* the row process() built for the recipe at 0-based position recipe_id of the
\* input file
BuiltRow(recipe_id) == create_metadata(load_data(corpus))[recipe_id + 1]

\* the row the retriever holds for the row process() built
LoadedRow(recipe_id) == read_csv(to_csv(<<BuiltRow(recipe_id)>>))[1]

\* every chunk record of the retriever carries a text of the recipe its
\* recipe_id names, at the place its chunk_id names
ChunkRecordsNameTheirRecipe ==
    \A j \in DOMAIN rt.chunk_metadata.data :
        LET record == rt.chunk_metadata.data[j]
            chunks == IF record.recipe_id + 1 \in DOMAIN corpus
                      THEN create_recipe_chunks(BuiltRow(record.recipe_id), DefaultChunkSize)
                      ELSE <<>>
        IN  /\ record.chunk_id + 1 \in DOMAIN chunks
            /\ record.text = chunks[record.chunk_id + 1]

\* the features of a candidate are those of the row of its recipe
FeaturesOfRow(candidate, row) ==
    /\ candidate.rating = row.rating
    /\ candidate.is_vegetarian = row.is_vege
    /\ candidate.avg_kcal = row.avg_kcal
    /\ candidate.avg_fat = row.avg_fat
    /\ candidate.avg_ecv = row.avg_ecv

\* the candidates of the last call are in descending final_score, those
\* without a score last
RankedByFinalScore ==
    \A k, l \in DOMAIN ret.ranked :
        k < l => /\ IsNaN(ret.ranked[k].final_score) => IsNaN(ret.ranked[l].final_score)
                 /\ ~FLess(ret.ranked[k].final_score, ret.ranked[l].final_score)

\* C24: on the files of one run of process(), the i-th record returned is the
\* rendering of the row of the recipe ranked i-th by final_score; the
\* recipe_id of the chunk records, the label of the feature lookup and the
\* position of the detail lookup name the same recipe of the input
C24_OneRecipePerRecipeId ==
    ret.status = "ok" =>
        /\ ChunkRecordsNameTheirRecipe
        /\ RankedByFinalScore
        /\ Len(ret.results) = Min2(ret.top_k, Len(ret.ranked))
        /\ \A k \in DOMAIN ret.results :
              /\ ret.ranked[k].recipe_id + 1 \in DOMAIN corpus
              /\ FeaturesOfRow(ret.ranked[k], LoadedRow(ret.ranked[k].recipe_id))
              /\ ret.results[k] =
                    format_retrieved_context(<<LoadedRow(ret.ranked[k].recipe_id)>>)[1]

\* a call returning two records of different recipes, the recipe in front being
\* the later one of the input
C24_Witness ==
    /\ ret.status = "ok"
    /\ Len(ret.results) = 2
    /\ ret.ranked[1].recipe_id > ret.ranked[2].recipe_id
    /\ ret.results[1] # ret.results[2]
    /\ ~FeaturesOfRow(ret.ranked[1], LoadedRow(ret.ranked[2].recipe_id))

====
